---- MODULE Spec2Model ----
(***************************************************************************)
(* Model of the portfolio accounting core of all_in_one_trading_engine.py. *)
(*                                                                         *)
(* PositionsManager (the position ledger): the positions dict, on_fill,    *)
(* save_position_to_db and get_unrealized_pnl.                             *)
(*                                                                         *)
(* Numbers.  quantity is a Python int and is an Integer here.  avg_cost    *)
(* and realized_pnl are Python floats; they are modelled as exact          *)
(* rationals <<numerator, denominator>> in lowest terms with a positive    *)
(* denominator, so that the division of on_fill is a real division and not *)
(* an integer one.  IEEE-754 rounding is abstracted away: every statement  *)
(* below is a statement about the arithmetic the code performs, computed   *)
(* exactly.  Fill prices are drawn from integers (prices in ticks).        *)
(***************************************************************************)
EXTENDS Integers, Sequences, FiniteSets, TLC

VARIABLES
    positions,   \* PositionsManager.positions: dict symbol -> position record
    use_db,      \* whether PositionsManager.db_session is set (SessionLocal)
    db,          \* rows of the 'positions' table, keyed by symbol
    last,        \* the last call made on the ledger, its inputs and its result
    hist,        \* per symbol: what the fills applied so far add up to
    nops,        \* number of calls made so far
    \* IBKRManager: the delivery of execDetails events to onExecDetails
    inbox,       \* fills received from the broker, not yet handed to onExecDetails
    arrived,     \* every fill received so far, in arrival order
    frames,      \* the calls of on_fill that were entered and did not return yet
    \* AlertEngine
    alerts,      \* AlertEngine.alerts: list of (type, symbol, condition_func, callback)
    alast,       \* the last call made on the alert engine and what it did
    fireCount,   \* per alert: how often its callback was called
    holdCount,   \* per alert: how many check_alerts calls found its condition true
    nchecks,     \* number of check_alerts calls made so far
    \* Backtester
    btIn,        \* Backtester.df (its Close column), initial_capital, and the
                 \* short_win, long_win of the sma_strategy call
    btRun,       \* the call's position and locals: capital, shares, portfolio_vals
    btOut,       \* what the call returned: final_val, ret_pct
    \* ChartDataManager
    symbol_candles,    \* dict symbol -> list of candles (timestamp, open, close,
                       \* low, high)
    current_bar_time,  \* dict symbol -> minute_stamp of the symbol's newest candle
    clock,             \* the UTC time in minutes and the host's offset from UTC
    ulast,             \* the last update_price call and the candles before it
    nupdates           \* number of update_price calls made so far

ledgerVars == <<positions, use_db, db, last, hist, nops>>
execVars == <<inbox, arrived, frames>>
alertVars == <<alerts, alast, fireCount, holdCount, nchecks>>
btVars == <<btIn, btRun, btOut>>
chartVars == <<symbol_candles, current_bar_time, clock, ulast, nupdates>>
vars == <<ledgerVars, execVars, alertVars, btVars, chartVars>>

(***************************************************************************)
(* Bounds of the model.                                                    *)
(***************************************************************************)
MaxOps == 3        \* calls on the ledger in one run, valid fills
MaxRawOps == 2     \* calls on the ledger in one run, unvalidated fills
MaxPairOps == 2    \* fills in one run when fills are compared in both orders
MaxAcctOps == 3    \* fills in one run when the SELL totals are kept too
MaxArrivals == 2   \* fills the broker sends in one run of the event delivery
MaxAlerts == 2     \* alerts registered in one run
MaxChecks == 2     \* check_alerts calls in one run
MaxBars == 5       \* bars of a backtested series
MaxWin == 3        \* largest long_win of a backtest
MaxCalls == 2      \* calls of sma_strategy on one Backtester
MaxUpdates == 3    \* update_price calls in one run

Symbols == {"AAPL", "MSFT"}
\* the action strings a fill may carry: IBKR sends "BUY"/"SELL"; on_fill
\* upper-cases what it gets, and anything else is an unknown action
Actions == {"BUY", "SELL", "sell", "HOLD"}
Prices == {100, 110, 130}
Qtys == {1, 2, 3}
\* what on_fill accepts without validation
RawPrices == Prices \cup {0, -100}
RawQtys == Qtys \cup {0, -1}
\* the fills the broker sends in the runs of the event delivery
ExecFills == [symbol : Symbols, action : {"BUY", "SELL"}, price : Prices, qty : {1, 2}]
\* condition functions: AlertsTab builds px >= thresh; px <= thresh is the
\* other price condition a caller may pass; NoneCond is None passed for it
Conds == {[kind |-> "ge", thresh |-> 120], [kind |-> "le", thresh |-> 100]}
NoneCond == [kind |-> "None", thresh |-> 0]
\* callbacks: each notifies under its own name
Callbacks == {"notify1", "notify2"}
\* None passed for the symbol
NoneSym == "None"
\* the prices of a snapshot
SnapPrices == {100, 120}
\* the snapshots: a price for some of the symbols
Snapshots == UNION {[d -> SnapPrices] : d \in SUBSET Symbols}
\* the Close values of a bar: positive ones, zero and a negative one
Closes == {-10, 0, 1, 5}
\* the bar series: their Close columns
BarSeries == UNION {[1..n -> Closes] : n \in 0..MaxBars}
\* the initial capitals of a Backtester
Capitals == {7, 10}
\* last prices a caller may ask the unrealized PnL for
LastPrices == {0, 100, 120}

(***************************************************************************)
(* Float arithmetic, computed exactly on rationals.                        *)
(***************************************************************************)
Abs(x) == IF x < 0 THEN -x ELSE x

RECURSIVE GCD(_, _)
GCD(a, b) == IF b = 0 THEN a ELSE GCD(b, a % b)

\* the rational n/d (d # 0) in lowest terms, denominator positive
RatNorm(n, d) ==
    LET g == GCD(Abs(n), Abs(d))
        s == IF d < 0 THEN -1 ELSE 1
    IN  <<(s * n) \div g, (s * d) \div g>>

Rat(k) == <<k, 1>>
Zero == Rat(0)
RatAdd(x, y) == RatNorm(x[1] * y[2] + y[1] * x[2], x[2] * y[2])
RatSub(x, y) == RatNorm(x[1] * y[2] - y[1] * x[2], x[2] * y[2])
RatMulInt(x, k) == RatNorm(x[1] * k, x[2])
RatDivInt(x, k) == RatNorm(x[1], x[2] * k)
RatLeq(x, y) == x[1] * y[2] <= y[1] * x[2]

\* Python's min on ints
Min(a, b) == IF a <= b THEN a ELSE b

\* str.upper() on the action strings of the model
upper(a) ==
    CASE a = "sell" -> "SELL"
      [] a = "buy"  -> "BUY"
      [] a = "hold" -> "HOLD"
      [] OTHER      -> a

(***************************************************************************)
(* PositionsManager                                                        *)
(***************************************************************************)
\* the default record of on_fill for a symbol with no record
DefaultPos == [quantity |-> 0, avg_cost |-> Zero, realized_pnl |-> Zero]

\* self.positions.get(symbol, default)
Get(p, symbol) == IF symbol \in DOMAIN p THEN p[symbol] ELSE DefaultPos

\* fault: the store rebinds the dict to the one filled symbol
Put_clobber(p, symbol, pos) == [t \in {symbol} |-> pos]

\* self.positions[symbol] = pos
Put(p, symbol, pos) ==
    [t \in DOMAIN p \cup {symbol} |-> IF t = symbol THEN pos ELSE p[t]]

\* fault: the BUY branch adds fill_price, not fill_qty * fill_price, to the cost
on_fill_buy_unweighted(pos, fill_price, fill_qty) ==
    LET new_qty == pos.quantity + fill_qty
    IN  IF new_qty = 0
        THEN [pos EXCEPT !.quantity = 0, !.avg_cost = Zero]
        ELSE [pos EXCEPT !.avg_cost = RatDivInt(RatAdd(RatMulInt(pos.avg_cost, pos.quantity),
                                                       Rat(fill_price)), new_qty),
                         !.quantity = new_qty]

\* fault: the BUY branch books a realized PnL for the shares that cover a short
on_fill_buy_books_cover(pos, fill_price, fill_qty) ==
    LET new_qty == pos.quantity + fill_qty
        covered == IF pos.quantity < 0 THEN Min(-pos.quantity, fill_qty) ELSE 0
        booked == RatAdd(pos.realized_pnl,
                         RatMulInt(RatSub(pos.avg_cost, Rat(fill_price)), covered))
    IN  IF new_qty = 0
        THEN [quantity |-> 0, avg_cost |-> Zero, realized_pnl |-> booked]
        ELSE [quantity |-> new_qty,
              avg_cost |-> RatDivInt(RatAdd(RatMulInt(pos.avg_cost, pos.quantity),
                                            Rat(fill_qty * fill_price)), new_qty),
              realized_pnl |-> booked]

\* the BUY branch of on_fill
on_fill_buy(pos, fill_price, fill_qty) ==
    LET old_qty == pos.quantity
        old_avg == pos.avg_cost
        new_qty == old_qty + fill_qty
    IN  IF new_qty = 0
        THEN [pos EXCEPT !.quantity = 0, !.avg_cost = Zero]
        ELSE LET total_cost_old == RatMulInt(old_avg, old_qty)
                 total_cost_new == RatAdd(total_cost_old, Rat(fill_qty * fill_price))
             IN  [pos EXCEPT !.avg_cost = RatDivInt(total_cost_new, new_qty),
                             !.quantity = new_qty]

\* fault: every share of the fill is booked, also those beyond the holding
on_fill_sell_long_no_min(pos, fill_price, fill_qty) ==
    LET quantity == pos.quantity - fill_qty
    IN  [quantity |-> quantity,
         avg_cost |-> IF quantity <= 0 THEN Zero ELSE pos.avg_cost,
         realized_pnl |-> RatAdd(pos.realized_pnl,
                                 RatMulInt(RatSub(Rat(fill_price), pos.avg_cost), fill_qty))]

\* fault: the cost basis is reset on a full close only, not on a flip into a short
on_fill_sell_long_reset_eq(pos, fill_price, fill_qty) ==
    LET quantity == pos.quantity - fill_qty
    IN  [quantity |-> quantity,
         avg_cost |-> IF quantity = 0 THEN Zero ELSE pos.avg_cost,
         realized_pnl |-> RatAdd(pos.realized_pnl,
                                 RatMulInt(RatSub(Rat(fill_price), pos.avg_cost),
                                           Min(pos.quantity, fill_qty)))]

\* fault: the cost basis is reset on a flip into a short only, not on a full close
on_fill_sell_long_reset_lt(pos, fill_price, fill_qty) ==
    LET quantity == pos.quantity - fill_qty
    IN  [quantity |-> quantity,
         avg_cost |-> IF quantity < 0 THEN Zero ELSE pos.avg_cost,
         realized_pnl |-> RatAdd(pos.realized_pnl,
                                 RatMulInt(RatSub(Rat(fill_price), pos.avg_cost),
                                           Min(pos.quantity, fill_qty)))]

\* fault: the long SELL branch books the proceeds, not the gain over the cost
on_fill_sell_long_books_proceeds(pos, fill_price, fill_qty) ==
    LET quantity == pos.quantity - fill_qty
    IN  [quantity |-> quantity,
         avg_cost |-> IF quantity <= 0 THEN Zero ELSE pos.avg_cost,
         realized_pnl |-> RatAdd(pos.realized_pnl,
                                 RatMulInt(Rat(fill_price),
                                           Min(pos.quantity, fill_qty)))]

\* the SELL branch of on_fill when old_qty > 0
on_fill_sell_long(pos, fill_price, fill_qty) ==
    LET old_qty == pos.quantity
        old_avg == pos.avg_cost
        old_real == pos.realized_pnl
        shares_closed == Min(old_qty, fill_qty)
        realized == RatMulInt(RatSub(Rat(fill_price), old_avg), shares_closed)
        quantity == old_qty - fill_qty
    IN  [quantity |-> quantity,
         avg_cost |-> IF quantity <= 0 THEN Zero ELSE old_avg,
         realized_pnl |-> RatAdd(old_real, realized)]

\* fault: the short branch resets the cost basis as the long branch does
on_fill_sell_short_resets(pos, fill_price, fill_qty) ==
    [pos EXCEPT !.quantity = pos.quantity - fill_qty, !.avg_cost = Zero]

\* fault: a SELL on a flat or short position is dropped
on_fill_sell_short_ignored(pos, fill_price, fill_qty) == pos

\* the SELL branch of on_fill when old_qty <= 0
on_fill_sell_short(pos, fill_price, fill_qty) ==
    [pos EXCEPT !.quantity = pos.quantity - fill_qty]

\* the record on_fill stores for the symbol
on_fill_pos(pos, action, fill_price, fill_qty) ==
    IF upper(action) = "BUY"
    THEN on_fill_buy(pos, fill_price, fill_qty)
    ELSE IF upper(action) = "SELL"
    THEN IF pos.quantity > 0
         THEN on_fill_sell_long(pos, fill_price, fill_qty)
         ELSE on_fill_sell_short(pos, fill_price, fill_qty)
    ELSE pos   \* logger.warning: unknown action

\* the positions dict after on_fill
on_fill(p, symbol, action, fill_price, fill_qty) ==
    Put(p, symbol, on_fill_pos(Get(p, symbol), action, fill_price, fill_qty))

\* the 'positions' table after save_position_to_db: an upsert of the record
save_position_to_db(rows, p, symbol) == Put(rows, symbol, p[symbol])

\* fault: the difference is taken the wrong way round
get_unrealized_pnl_swapped(p, symbol, last_price) ==
    IF symbol \notin DOMAIN p \/ p[symbol].quantity = 0
    THEN Zero
    ELSE RatMulInt(RatSub(p[symbol].avg_cost, Rat(last_price)), p[symbol].quantity)

get_unrealized_pnl(p, symbol, last_price) ==
    IF symbol \notin DOMAIN p \/ p[symbol].quantity = 0
    THEN Zero
    ELSE RatMulInt(RatSub(Rat(last_price), p[symbol].avg_cost), p[symbol].quantity)

(***************************************************************************)
(* AlertEngine                                                             *)
(***************************************************************************)
\* self.alerts.append(("technical", symbol, condition_func, callback))
add_technical_alert(as, symbol, condition_func, callback) ==
    Append(as, [atype |-> "technical", sym |-> symbol, cond |-> condition_func,
                cb |-> callback])

\* cond(px) for the condition functions of the model
cond_holds(cond, px) ==
    IF cond.kind = "ge" THEN px >= cond.thresh ELSE px <= cond.thresh

\* px = price_dict.get(sym); px is not None
has_price(price_dict, sym) == sym \in DOMAIN price_dict

\* calling the condition raises: None is not callable
cond_raises(a, price_dict) ==
    a.atype = "technical" /\ has_price(price_dict, a.sym) /\ a.cond.kind = "None"

\* the first loop of check_alerts over alerts k..: the indices appended to
\* triggered, in the order of the appends
RECURSIVE triggered_from(_, _, _)
triggered_from(as, price_dict, k) ==
    IF k > Len(as) THEN <<>>
    ELSE LET a == as[k]
             hit == /\ a.atype = "technical"
                    /\ has_price(price_dict, a.sym)
                    /\ cond_holds(a.cond, price_dict[a.sym])
         IN  (IF hit THEN <<k>> ELSE <<>>) \o triggered_from(as, price_dict, k + 1)

\* fault: triggered is built by inserting at the front
RECURSIVE triggered_front(_, _)
triggered_front(as, price_dict) ==
    IF as = <<>> THEN <<>>
    ELSE LET k == Len(as)
             a == as[k]
             hit == /\ a.atype = "technical"
                    /\ has_price(price_dict, a.sym)
                    /\ cond_holds(a.cond, price_dict[a.sym])
         IN  (IF hit THEN <<k>> ELSE <<>>)
                 \o triggered_front(SubSeq(as, 1, k - 1), price_dict)

triggered(as, price_dict) == triggered_from(as, price_dict, 1)

\* check_alerts: the indices of the alerts whose callback is called, in the
\* order of the calls, or the error the first loop ends with
check_alerts(as, price_dict) ==
    IF \E k \in 1..Len(as) : cond_raises(as[k], price_dict)
    THEN [raised |-> "TypeError", fired |-> <<>>]
    ELSE [raised |-> "none", fired |-> triggered(as, price_dict)]

NoAlertCall == [op |-> "none", price_dict |-> <<>>, before |-> <<>>,
                raised |-> "none", fired |-> <<>>, invoked |-> <<>>]

\* one call of add_technical_alert
AddAlertCall(symbol, condition_func, callback) ==
    /\ alerts' = add_technical_alert(alerts, symbol, condition_func, callback)
    /\ fireCount' = Append(fireCount, 0)
    /\ holdCount' = Append(holdCount, 0)
    /\ alast' = [op |-> "add_technical_alert", price_dict |-> <<>>, before |-> alerts,
                 raised |-> "none", fired |-> <<>>, invoked |-> <<>>]
    /\ UNCHANGED <<nchecks, ledgerVars, execVars, btVars, chartVars>>

\* fault: an alert that fired once is not fired again
CheckAlertsCall_once(price_dict) ==
    LET res == check_alerts(alerts, price_dict)
        fired == SelectSeq(res.fired, LAMBDA k : fireCount[k] = 0)
    IN  /\ alast' = [op |-> "check_alerts", price_dict |-> price_dict, before |-> alerts,
                     raised |-> res.raised, fired |-> fired,
                     invoked |-> [j \in 1..Len(fired) |->
                                     <<alerts[fired[j]].cb, alerts[fired[j]].sym>>]]
        /\ fireCount' = [k \in 1..Len(alerts) |->
                            fireCount[k] + Cardinality({j \in 1..Len(fired) : fired[j] = k})]
        /\ holdCount' = [k \in 1..Len(alerts) |->
                            holdCount[k] + (IF /\ has_price(price_dict, alerts[k].sym)
                                               /\ alerts[k].cond.kind # "None"
                                               /\ cond_holds(alerts[k].cond,
                                                             price_dict[alerts[k].sym])
                                            THEN 1 ELSE 0)]
        /\ nchecks' = nchecks + 1
        /\ UNCHANGED <<alerts, ledgerVars, execVars, btVars, chartVars>>

\* one call of check_alerts, whole: both loops; invoked lists the calls
\* handler(sym) made, in order
CheckAlertsCall(price_dict) ==
    LET res == check_alerts(alerts, price_dict)
    IN  /\ alast' = [op |-> "check_alerts", price_dict |-> price_dict, before |-> alerts,
                     raised |-> res.raised, fired |-> res.fired,
                     invoked |-> [j \in 1..Len(res.fired) |->
                                     <<alerts[res.fired[j]].cb, alerts[res.fired[j]].sym>>]]
        /\ fireCount' = [k \in 1..Len(alerts) |->
                            fireCount[k]
                                + Cardinality({j \in 1..Len(res.fired) : res.fired[j] = k})]
        /\ holdCount' = [k \in 1..Len(alerts) |->
                            holdCount[k] + (IF /\ has_price(price_dict, alerts[k].sym)
                                               /\ alerts[k].cond.kind # "None"
                                               /\ cond_holds(alerts[k].cond,
                                                             price_dict[alerts[k].sym])
                                            THEN 1 ELSE 0)]
        /\ nchecks' = nchecks + 1
        /\ UNCHANGED <<alerts, ledgerVars, execVars, btVars, chartVars>>

(***************************************************************************)
(* What the fills applied to a symbol add up to (not program state).       *)
(***************************************************************************)
NoHist == [fills |-> 0, buyQty |-> 0, buyCost |-> 0, minBuy |-> 0, maxBuy |-> 0,
           onlyBuys |-> TRUE, sellQty |-> 0, sellCash |-> 0, covered |-> TRUE]

HistAfter(h, action, fill_price, fill_qty) ==
    IF upper(action) = "BUY"
    THEN [h EXCEPT !.fills = @ + 1,
                   !.buyQty = @ + fill_qty,
                   !.buyCost = @ + fill_qty * fill_price,
                   !.minBuy = IF h.buyQty = 0 THEN fill_price ELSE Min(@, fill_price),
                   !.maxBuy = IF h.buyQty = 0 THEN fill_price ELSE -Min(-@, -fill_price)]
    ELSE [h EXCEPT !.fills = @ + 1, !.onlyBuys = FALSE]

\* ghost: the SELL totals of a symbol, and whether every SELL so far was for at
\* most the quantity held when it came (held is the quantity before the fill)
AcctAfter(h, held, action, fill_price, fill_qty) ==
    IF upper(action) = "SELL"
    THEN [h EXCEPT !.sellQty = @ + fill_qty,
                   !.sellCash = @ + fill_qty * fill_price,
                   !.covered = @ /\ fill_qty <= held]
    ELSE h

(***************************************************************************)
(* The state machine.                                                      *)
(***************************************************************************)
EmptyDict == [t \in {} |-> DefaultPos]

NoCall == [op |-> "none", symbol |-> "", action |-> "", price |-> 0, qty |-> 0,
           before |-> EmptyDict, raised |-> "none", result |-> Zero]

\* ghost: what the first call of sma_strategy was given and returned
NoFirst == [df |-> <<>>, initial_capital |-> 0, final_val |-> 0, ret_pct |-> Zero,
            portfolio_value |-> <<>>]

\* ChartDataManager.__init__, on a host in UTC, before any update_price
NoUpdate == [op |-> "none", symbol |-> "", price |-> 0, minute |-> 0, before |-> <<>>]
NoChart ==
    /\ symbol_candles = <<>> /\ current_bar_time = <<>>
    /\ clock = [now |-> 0, tz |-> 0]
    /\ ulast = NoUpdate /\ nupdates = 0

\* no Backtester was made
NoBacktest ==
    /\ btIn = [df |-> <<>>, columns |-> {}, initial_capital |-> 0,
               short_win |-> 0, long_win |-> 0]
    /\ btRun = [pc |-> "none", calls |-> 0, i |-> 0, capital |-> 0, shares |-> 0,
                portfolio_vals |-> <<>>, change |-> 0, prev_capital |-> 0,
                prev_shares |-> 0]
    /\ btOut = [final_val |-> 0, ret_pct |-> Zero, portfolio_value |-> <<>>,
                first |-> NoFirst]

\* PositionsManager.__init__, AlertEngine.__init__
Init ==
    /\ NoBacktest /\ NoChart
    /\ positions = EmptyDict
    /\ use_db \in BOOLEAN
    /\ db = EmptyDict
    /\ last = NoCall
    /\ hist = [s \in Symbols |-> NoHist]
    /\ nops = 0
    /\ inbox = <<>> /\ arrived = <<>> /\ frames = <<>>
    /\ alerts = <<>> /\ alast = NoAlertCall
    /\ fireCount = <<>> /\ holdCount = <<>> /\ nchecks = 0

\* one call of on_fill, whole: the update, the store and the optional save
Fill(symbol, action, fill_price, fill_qty) ==
    /\ positions' = on_fill(positions, symbol, action, fill_price, fill_qty)
    /\ db' = IF use_db THEN save_position_to_db(db, positions', symbol) ELSE db
    /\ last' = [op |-> "on_fill", symbol |-> symbol, action |-> action,
                price |-> fill_price, qty |-> fill_qty, before |-> positions,
                raised |-> "none", result |-> Zero]
    /\ hist' = [hist EXCEPT ![symbol] = HistAfter(@, action, fill_price, fill_qty)]
    /\ nops' = nops + 1
    /\ UNCHANGED <<use_db, execVars, alertVars, btVars, chartVars>>

\* onExecDetails delivering a fill as the spec's Fill type describes it
OnFill ==
    /\ nops < MaxOps
    /\ \E symbol \in Symbols, action \in Actions, p \in Prices, q \in Qtys :
          Fill(symbol, action, p, q)

\* on_fill called with whatever the caller passes: no validation in the code
OnFillRaw ==
    /\ nops < MaxRawOps
    /\ \E symbol \in Symbols, action \in Actions, p \in RawPrices, q \in RawQtys :
          Fill(symbol, action, p, q)

\* PositionsTab.refresh_positions asking for a symbol's unrealized PnL
UnrealizedPnl ==
    /\ nops < MaxOps
    /\ \E symbol \in Symbols, last_price \in LastPrices :
          last' = [op |-> "get_unrealized_pnl", symbol |-> symbol, action |-> "",
                   price |-> last_price, qty |-> 0, before |-> positions,
                   raised |-> "none",
                   result |-> get_unrealized_pnl(positions, symbol, last_price)]
    /\ nops' = nops + 1
    /\ UNCHANGED <<positions, use_db, db, hist, execVars, alertVars, btVars, chartVars>>

Next == OnFill \/ UnrealizedPnl

Spec == Init /\ [][Next]_vars

NextRaw == OnFillRaw \/ UnrealizedPnl

\* onExecDetails delivering fills, in the runs that compare orders of fills
OnFillPair ==
    /\ nops < MaxPairOps
    /\ \E symbol \in Symbols, action \in Actions, p \in Prices, q \in Qtys :
          Fill(symbol, action, p, q)

NextPair == OnFillPair

SpecPair == Init /\ [][NextPair]_vars

SpecRaw == Init /\ [][NextRaw]_vars

\* the sides on_fill acts on, in both spellings action.upper() accepts
TradeActions == {"BUY", "SELL", "sell"}

\* onExecDetails delivering BUY and SELL fills, in the runs that keep the SELL
\* totals of each symbol
OnFillAcct ==
    /\ nops < MaxAcctOps
    /\ \E symbol \in Symbols, action \in TradeActions, p \in Prices, q \in Qtys :
          /\ positions' = on_fill(positions, symbol, action, p, q)
          /\ db' = IF use_db THEN save_position_to_db(db, positions', symbol) ELSE db
          /\ last' = [op |-> "on_fill", symbol |-> symbol, action |-> action,
                      price |-> p, qty |-> q, before |-> positions,
                      raised |-> "none", result |-> Zero]
          /\ hist' = [hist EXCEPT ![symbol] =
                         AcctAfter(HistAfter(@, action, p, q),
                                   Get(positions, symbol).quantity, action, p, q)]
          /\ nops' = nops + 1
          /\ UNCHANGED <<use_db, execVars, alertVars, btVars, chartVars>>

NextAcct == OnFillAcct

SpecAcct == Init /\ [][NextAcct]_vars

(***************************************************************************)
(* The alert engine as AlertsTab.on_add_alert and                          *)
(* MainWindow.on_market_data_update drive it.                              *)
(***************************************************************************)
\* AlertsTab.on_add_alert registering an alert
AddAlert ==
    /\ Len(alerts) < MaxAlerts
    /\ \E symbol \in Symbols, cond \in Conds, cb \in Callbacks :
          AddAlertCall(symbol, cond, cb)

\* add_technical_alert called with whatever the caller passes
AddAlertRaw ==
    /\ Len(alerts) < MaxAlerts
    /\ \E symbol \in Symbols \cup {NoneSym}, cond \in Conds \cup {NoneCond},
          cb \in Callbacks :
          AddAlertCall(symbol, cond, cb)

\* MainWindow.on_market_data_update passing the worker's price dict
CheckAlerts ==
    /\ nchecks < MaxChecks
    /\ \E price_dict \in Snapshots : CheckAlertsCall(price_dict)

NextAlert == AddAlert \/ CheckAlerts

SpecAlert == Init /\ [][NextAlert]_vars

NextAlertRaw == AddAlertRaw \/ CheckAlerts

SpecAlertRaw == Init /\ [][NextAlertRaw]_vars

(***************************************************************************)
(* check_alerts step by step: the first loop, then one step per handler    *)
(* call of the second loop.  A handler is the caller's code and may        *)
(* register an alert on the engine while check_alerts is running.          *)
(***************************************************************************)
AlertsRunning == alast.op = "check_alerts_running"

\* AlertsTab.on_add_alert registering an alert while no check_alerts runs
AddAlertIdle ==
    /\ ~AlertsRunning
    /\ AddAlert

\* check_alerts is entered and its first loop runs: triggered is built from
\* self.alerts and price_dict as they are now
CheckEnter ==
    /\ ~AlertsRunning /\ nchecks < MaxChecks
    /\ \E price_dict \in Snapshots :
          /\ alast' = [op |-> "check_alerts_running", price_dict |-> price_dict,
                       before |-> alerts, raised |-> "none",
                       fired |-> triggered(alerts, price_dict), invoked |-> <<>>]
          /\ holdCount' = [k \in 1..Len(alerts) |->
                              holdCount[k] + (IF /\ has_price(price_dict, alerts[k].sym)
                                                 /\ cond_holds(alerts[k].cond,
                                                               price_dict[alerts[k].sym])
                                              THEN 1 ELSE 0)]
    /\ UNCHANGED <<alerts, fireCount, nchecks, ledgerVars, execVars, btVars, chartVars>>

\* what a handler does to the engine: nothing, or it registers an alert
HandlerEffect(k) ==
    \/ /\ alerts' = alerts
       /\ fireCount' = [fireCount EXCEPT ![k] = @ + 1]
       /\ holdCount' = holdCount
    \/ /\ Len(alerts) < MaxAlerts
       /\ \E symbol \in Symbols, cond \in Conds, cb \in Callbacks :
             alerts' = add_technical_alert(alerts, symbol, cond, cb)
       /\ fireCount' = Append([fireCount EXCEPT ![k] = @ + 1], 0)
       /\ holdCount' = Append(holdCount, 0)

\* fault: one loop over the live list: what fires is evaluated again after
\* every handler
CheckHandler_live ==
    /\ AlertsRunning /\ Len(alast.invoked) < Len(alast.fired)
    /\ LET k == alast.fired[Len(alast.invoked) + 1]
       IN  /\ HandlerEffect(k)
           /\ alast' = [alast EXCEPT
                           !.invoked = Append(@, <<alerts[k].cb, alerts[k].sym>>),
                           !.fired = triggered(alerts', alast.price_dict)]
    /\ UNCHANGED <<nchecks, ledgerVars, execVars, btVars, chartVars>>

\* one turn of the second loop: handler(sym) for the next entry of triggered
CheckHandler ==
    /\ AlertsRunning /\ Len(alast.invoked) < Len(alast.fired)
    /\ LET k == alast.fired[Len(alast.invoked) + 1]
       IN  /\ HandlerEffect(k)
           /\ alast' = [alast EXCEPT
                           !.invoked = Append(@, <<alerts[k].cb, alerts[k].sym>>)]
    /\ UNCHANGED <<nchecks, ledgerVars, execVars, btVars, chartVars>>

\* the second loop is over: check_alerts returns
CheckReturn ==
    /\ AlertsRunning /\ Len(alast.invoked) = Len(alast.fired)
    /\ alast' = [alast EXCEPT !.op = "check_alerts"]
    /\ nchecks' = nchecks + 1
    /\ UNCHANGED <<alerts, fireCount, holdCount, ledgerVars, execVars, btVars, chartVars>>

NextPhase == AddAlertIdle \/ CheckEnter \/ CheckHandler \/ CheckReturn

SpecPhase == Init /\ [][NextPhase]_vars

(***************************************************************************)
(* Backtester.  Bars are numbered from 1 here: bar k is the row of         *)
(* positional index k - 1.  Close values and capitals are integers (ticks),*)
(* so capital, cost and the portfolio values stay integers; the moving     *)
(* averages and ret_pct are rationals.                                     *)
(***************************************************************************)
RECURSIVE SumCloses(_, _, _)
SumCloses(df, from, to) ==
    IF from > to THEN 0 ELSE df[from] + SumCloses(df, from + 1, to)

\* df["Close"].rolling(win).mean() at bar k; NaN before a full window
sma_defined(win, k) == k >= win
sma(df, win, k) == RatDivInt(Rat(SumCloses(df, k - win + 1, k)), win)

\* fault: the signal is 1 where the short average is below the long one
signal_below(df, short_win, long_win, k) ==
    IF /\ k - 1 >= long_win
       /\ sma_defined(short_win, k) /\ sma_defined(long_win, k)
       /\ ~RatLeq(sma(df, long_win, k), sma(df, short_win, k))
    THEN 1 ELSE 0

\* fault: the signal is set from the first bar with a full long window on
signal_from_window(df, short_win, long_win, k) ==
    IF /\ k >= long_win
       /\ sma_defined(short_win, k) /\ sma_defined(long_win, k)
       /\ ~RatLeq(sma(df, short_win, k), sma(df, long_win, k))
    THEN 1 ELSE 0

\* df["signal"] at bar k: 0, and from index long_win on 1 where
\* SMA_short > SMA_long (a comparison with NaN is False)
signal(df, short_win, long_win, k) ==
    IF /\ k - 1 >= long_win
       /\ sma_defined(short_win, k) /\ sma_defined(long_win, k)
       /\ ~RatLeq(sma(df, short_win, k), sma(df, long_win, k))
    THEN 1 ELSE 0

\* fault: the positions column is the signal itself, not its change
position_change_level(df, short_win, long_win, k) ==
    signal(df, short_win, long_win, k)

\* df["positions"] = df["signal"].diff() at bar k; the first is NaN, which is
\* neither 1 nor -1 and is 0 here
position_change(df, short_win, long_win, k) ==
    IF k = 1 THEN 0
    ELSE signal(df, short_win, long_win, k) - signal(df, short_win, long_win, k - 1)

\* fault: one share more than the capital pays for
can_buy_rounded_up(capital, close) == (capital \div close) + 1

\* int(capital // row["Close"]), for Close > 0
can_buy(capital, close) == capital \div close

\* fault: the early return gives a final value of 0
empty_result_zero(initial_capital) == [final_val |-> 0, ret_pct |-> Zero]

\* return df, self.initial_capital, 0
empty_result(initial_capital) == [final_val |-> initial_capital, ret_pct |-> Zero]

\* final_val and ret_pct after the loop
loop_result(portfolio_vals, initial_capital) ==
    LET final_val == IF portfolio_vals # <<>>
                     THEN portfolio_vals[Len(portfolio_vals)]
                     ELSE initial_capital
    IN  [final_val |-> final_val,
         ret_pct |-> RatMulInt(RatDivInt(Rat(final_val - initial_capital),
                                         initial_capital), 100)]

\* Backtester(df, initial_capital)
InitBacktest ==
    /\ NoChart
    /\ positions = EmptyDict /\ use_db = FALSE /\ db = EmptyDict
    /\ last = NoCall /\ hist = [s \in Symbols |-> NoHist] /\ nops = 0
    /\ inbox = <<>> /\ arrived = <<>> /\ frames = <<>>
    /\ alerts = <<>> /\ alast = NoAlertCall
    /\ fireCount = <<>> /\ holdCount = <<>> /\ nchecks = 0
    /\ \E df \in BarSeries, initial_capital \in Capitals :
          btIn = [df |-> df, columns |-> {"Close"},
                  initial_capital |-> initial_capital,
                  short_win |-> 0, long_win |-> 0]
    /\ btRun = [pc |-> "new", calls |-> 0, i |-> 0, capital |-> 0, shares |-> 0,
                portfolio_vals |-> <<>>, change |-> 0, prev_capital |-> 0,
                prev_shares |-> 0]
    /\ btOut = [final_val |-> 0, ret_pct |-> Zero, portfolio_value |-> <<>>,
                first |-> NoFirst]

\* the columns sma_strategy adds to the frame it works on
AddedColumns == {"SMA_short", "SMA_long", "signal", "positions", "portfolio_value"}

\* fault: the strategy works on self.df itself
stored_columns_aliased(columns, added) == columns \cup added

\* df = self.df.copy(): the columns are added to the copy, the stored frame
\* keeps its own
stored_columns(columns, added) == columns

\* fault: the cash is an attribute that a later call finds as the last left it
start_capital_carried(initial_capital, calls, left_over) ==
    IF calls = 0 THEN initial_capital ELSE left_over

\* capital = self.initial_capital
start_capital(initial_capital, calls, left_over) == initial_capital

\* what a call returns, and the ghost record of the first call
BtReturned(result, portfolio_value) ==
    LET out == [final_val |-> result.final_val, ret_pct |-> result.ret_pct,
                portfolio_value |-> portfolio_value]
    IN  btOut' = [final_val |-> out.final_val, ret_pct |-> out.ret_pct,
                  portfolio_value |-> out.portfolio_value,
                  first |-> IF btRun.calls = 0
                            THEN [df |-> btIn.df,
                                  initial_capital |-> btIn.initial_capital,
                                  final_val |-> out.final_val,
                                  ret_pct |-> out.ret_pct,
                                  portfolio_value |-> out.portfolio_value]
                            ELSE btOut.first]

\* sma_strategy(short_win, long_win) up to the loop: the early return on an
\* empty frame, which is taken before the windows are read, else the locals of
\* the loop
BtStart(short_win, long_win) ==
    IF btIn.df = <<>>
    THEN /\ btIn' = [btIn EXCEPT !.short_win = short_win, !.long_win = long_win]
         /\ btRun' = [btRun EXCEPT !.pc = "done", !.calls = @ + 1]
         /\ BtReturned(empty_result(btIn.initial_capital), <<>>)
    ELSE /\ btIn' = [btIn EXCEPT !.short_win = short_win, !.long_win = long_win,
                                 !.columns = stored_columns(@, AddedColumns)]
         /\ btRun' = [btRun EXCEPT !.pc = "loop", !.i = 0,
                                   !.capital = start_capital(btIn.initial_capital,
                                                             btRun.calls,
                                                             btRun.capital),
                                   !.shares = 0, !.portfolio_vals = <<>>,
                                   !.change = 0, !.prev_capital = 0,
                                   !.prev_shares = 0]
         /\ UNCHANGED btOut

\* the first call on a Backtester, with any windows if the frame is empty and
\* with 0 < short_win < long_win otherwise
BtCall ==
    /\ btRun.pc = "new"
    /\ \E long_win \in 0..MaxWin, short_win \in 0..MaxWin :
          /\ btIn.df # <<>> => 0 < short_win /\ short_win < long_win
          /\ BtStart(short_win, long_win)
    /\ UNCHANGED <<ledgerVars, execVars, alertVars, chartVars>>

\* a further call on the same Backtester with the same arguments
BtCallAgain ==
    /\ btRun.pc = "done" /\ btRun.calls < MaxCalls
    /\ BtStart(btIn.short_win, btIn.long_win)
    /\ UNCHANGED <<ledgerVars, execVars, alertVars, chartVars>>

\* the row the loop is at, and its df["positions"]
BtRow == btRun.i + 1
BtClose == btIn.df[BtRow]
BtChange == position_change(btIn.df, btIn.short_win, btIn.long_win, BtRow)
BtInLoop == btRun.pc = "loop" /\ btRun.i < Len(btIn.df)

\* the loop body's end: the portfolio value is appended
BtAfterRow(capital, shares) ==
    /\ btRun' = [btRun EXCEPT !.i = BtRow, !.capital = capital, !.shares = shares,
                              !.portfolio_vals = Append(@, capital + shares * BtClose),
                              !.change = BtChange,
                              !.prev_capital = btRun.capital,
                              !.prev_shares = btRun.shares]
    /\ UNCHANGED <<btIn, btOut, ledgerVars, execVars, alertVars, chartVars>>

\* fault: an entry pays one tick of fee on top of the cost
BtEntry_with_fee ==
    /\ BtInLoop /\ BtChange = 1
    /\ IF BtClose > 0
       THEN LET n == can_buy(btRun.capital, BtClose)
                cost == n * BtClose + 1
            IN  BtAfterRow(btRun.capital - cost, btRun.shares + n)
       ELSE BtAfterRow(btRun.capital, btRun.shares)

\* a row with positions == 1: buy what the capital pays for, if Close > 0
BtEntry ==
    /\ BtInLoop /\ BtChange = 1
    /\ IF BtClose > 0
       THEN LET n == can_buy(btRun.capital, BtClose)
                cost == n * BtClose
            IN  BtAfterRow(btRun.capital - cost, btRun.shares + n)
       ELSE BtAfterRow(btRun.capital, btRun.shares)

\* a row with positions == -1: sell all shares
BtExit ==
    /\ BtInLoop /\ BtChange = -1
    /\ BtAfterRow(btRun.capital + btRun.shares * BtClose, 0)

\* any other row
BtHold ==
    /\ BtInLoop /\ BtChange \notin {1, -1}
    /\ BtAfterRow(btRun.capital, btRun.shares)

\* after the last row: final_val, ret_pct
BtReturn ==
    /\ btRun.pc = "loop" /\ btRun.i = Len(btIn.df)
    /\ btRun' = [btRun EXCEPT !.pc = "done", !.calls = @ + 1]
    /\ BtReturned(loop_result(btRun.portfolio_vals, btIn.initial_capital),
                  btRun.portfolio_vals)
    /\ UNCHANGED <<btIn, ledgerVars, execVars, alertVars, chartVars>>

NextBt == BtCall \/ BtCallAgain \/ BtEntry \/ BtExit \/ BtHold \/ BtReturn

SpecBt == InitBacktest /\ [][NextBt]_vars

(***************************************************************************)
(* ChartDataManager.  Times are whole minutes: a naive datetime is the     *)
(* number of minutes it reads, an epoch timestamp the number of minutes    *)
(* since the epoch; clock.tz is local time minus UTC, in minutes.          *)
(***************************************************************************)
\* the offsets of the hosts of the model (UTC-1, UTC, UTC+1) and the minutes
\* that pass between two update_price calls
TzOffsets == {-60, 0, 60}
Elapsed == {0, 1, 60}

\* naive.timestamp(): a naive datetime is taken as local time of the host
timestamp(naive, tz) == naive - tz

\* datetime.utcfromtimestamp(t): the naive UTC datetime of an epoch time
utcfromtimestamp(t) == t

\* (minute_stamp.timestamp(), price, price, price, price); minute is a ghost
\* field, the UTC minute the candle was made in
new_candle(minute_stamp, tz, price) ==
    [t |-> timestamp(minute_stamp, tz), minute |-> minute_stamp,
     open |-> price, close |-> price, low |-> price, high |-> price]

\* the candles of a symbol after update_price(symbol, price) at minute_stamp
update_candles(candles, minute_stamp, tz, price) ==
    LET last_bar == candles[Len(candles)]
        last_bar_time == utcfromtimestamp(last_bar.t)
    IN  IF minute_stamp = last_bar_time
        THEN [candles EXCEPT ![Len(candles)] =
                 [last_bar EXCEPT !.close = price,
                                  !.low = Min(last_bar.low, price),
                                  !.high = -Min(-last_bar.high, -price)]]
        ELSE Append(candles, new_candle(minute_stamp, tz, price))

\* ChartDataManager on a host with some offset from UTC
InitChart ==
    /\ NoBacktest
    /\ positions = EmptyDict /\ use_db = FALSE /\ db = EmptyDict
    /\ last = NoCall /\ hist = [s \in Symbols |-> NoHist] /\ nops = 0
    /\ inbox = <<>> /\ arrived = <<>> /\ frames = <<>>
    /\ alerts = <<>> /\ alast = NoAlertCall
    /\ fireCount = <<>> /\ holdCount = <<>> /\ nchecks = 0
    /\ symbol_candles = <<>> /\ current_bar_time = <<>>
    /\ \E tz \in TzOffsets : clock = [now |-> 0, tz |-> tz]
    /\ ulast = NoUpdate /\ nupdates = 0

\* update_price(symbol, price), some minutes after the call before
UpdatePrice ==
    /\ nupdates < MaxUpdates
    /\ \E symbol \in Symbols, price \in Prices, d \in Elapsed :
          LET minute_stamp == clock.now + d
              known == symbol \in DOMAIN symbol_candles
              candles == IF known
                         THEN update_candles(symbol_candles[symbol], minute_stamp,
                                             clock.tz, price)
                         ELSE <<new_candle(minute_stamp, clock.tz, price)>>
              appended == ~known \/ Len(candles) > Len(symbol_candles[symbol])
          IN  /\ clock' = [clock EXCEPT !.now = minute_stamp]
              /\ symbol_candles' =
                     [t \in DOMAIN symbol_candles \cup {symbol} |->
                         IF t = symbol THEN candles ELSE symbol_candles[t]]
              /\ current_bar_time' =
                     IF appended
                     THEN [t \in DOMAIN current_bar_time \cup {symbol} |->
                              IF t = symbol THEN minute_stamp ELSE current_bar_time[t]]
                     ELSE current_bar_time
              /\ ulast' = [op |-> "update_price", symbol |-> symbol, price |-> price,
                           minute |-> minute_stamp,
                           before |-> IF known THEN symbol_candles[symbol] ELSE <<>>]
    /\ nupdates' = nupdates + 1
    /\ UNCHANGED <<ledgerVars, execVars, alertVars, btVars>>

NextChart == UpdatePrice

SpecChart == InitChart /\ [][NextChart]_vars

(***************************************************************************)
(* Delivery of fills.  IBKRManager.connect subscribes onExecDetails to     *)
(* ib.execDetailsEvent; onExecDetails and on_fill are plain functions (no  *)
(* await, no thread is started for them, no lock is taken): the event loop *)
(* calls the handler for one event and gets control back when it returns.  *)
(* on_fill is split at its read of the record (lines 282-285) and its      *)
(* store (line 314) so that an overlap of two calls would show.            *)
(***************************************************************************)
\* fault: handlers are started on worker threads, one per event
CanDispatch_threaded(fs) == TRUE

\* the event loop calls a handler only when no handler is running
CanDispatch(fs) == fs = <<>>

\* the broker sends an execution
ExecArrive ==
    /\ Len(arrived) < MaxArrivals
    /\ \E fill \in ExecFills :
          /\ inbox' = Append(inbox, fill)
          /\ arrived' = Append(arrived, fill)
    /\ UNCHANGED <<ledgerVars, frames, alertVars, btVars, chartVars>>

\* onExecDetails is called with the oldest event and enters on_fill, which
\* reads the symbol's record
ExecDispatch ==
    /\ inbox # <<>>
    /\ CanDispatch(frames)
    /\ frames' = Append(frames, [fill |-> Head(inbox),
                                 pos |-> Get(positions, Head(inbox).symbol)])
    /\ inbox' = Tail(inbox)
    /\ UNCHANGED <<ledgerVars, arrived, alertVars, btVars, chartVars>>

\* a call of on_fill computes the record from what it read, stores it and returns
ExecReturn ==
    /\ \E i \in 1..Len(frames) :
          LET f == frames[i].fill
              pos == on_fill_pos(frames[i].pos, f.action, f.price, f.qty)
          IN  /\ positions' = Put(positions, f.symbol, pos)
              /\ db' = IF use_db THEN save_position_to_db(db, positions', f.symbol) ELSE db
              /\ frames' = SubSeq(frames, 1, i - 1) \o SubSeq(frames, i + 1, Len(frames))
    /\ UNCHANGED <<use_db, last, hist, nops, inbox, arrived, alertVars, btVars, chartVars>>

NextExec == ExecArrive \/ ExecDispatch \/ ExecReturn

SpecExec == Init /\ [][NextExec]_vars

(***************************************************************************)
(* The claims.  Each is stated on the last call (its inputs, the positions *)
(* dict before it) and the state it left.                                  *)
(***************************************************************************)
IsFill == last.op = "on_fill"
Side == upper(last.action)
\* the record on_fill read for the filled symbol, and the one it stored
Before == Get(last.before, last.symbol)
After == positions[last.symbol]

\* C1: after a sequence of BUY fills only on a symbol that had no record,
\* quantity is the sum of the fill quantities and avg_cost is the
\* volume-weighted average price sum(price_i * qty_i) / sum(qty_i).
C1_BuyOnlyVWAP ==
    \A s \in Symbols :
        (hist[s].onlyBuys /\ hist[s].fills > 0) =>
            /\ s \in DOMAIN positions
            /\ positions[s].quantity = hist[s].buyQty
            /\ positions[s].avg_cost[1] * hist[s].buyQty
                   = hist[s].buyCost * positions[s].avg_cost[2]

\* two or more BUYs at different prices whose average is not a whole number
C1_Witness ==
    \E s \in Symbols :
        /\ hist[s].onlyBuys /\ hist[s].fills >= 2
        /\ hist[s].minBuy < hist[s].maxBuy
        /\ positions[s].avg_cost[2] # 1

\* C2: a SELL on a position with quantity q > 0 and average cost a adds exactly
\* (price - a) * min(q, fill_qty) to realized_pnl: the shares sold beyond the
\* holding add nothing.
C2_SellRealizesClosedShares ==
    (IsFill /\ Side = "SELL" /\ Before.quantity > 0) =>
        LET closed == IF last.qty > Before.quantity THEN Before.quantity ELSE last.qty
            gain == RatSub(After.realized_pnl, Before.realized_pnl)
        IN  gain[1] * Before.avg_cost[2]
                = (last.price * Before.avg_cost[2] - Before.avg_cost[1]) * closed * gain[2]

\* a SELL of more shares than held, at a price that is not the average cost
C2_Witness ==
    /\ IsFill /\ Side = "SELL"
    /\ Before.quantity > 0 /\ last.qty > Before.quantity
    /\ After.realized_pnl # Before.realized_pnl

\* C3: a SELL on a position with quantity q > 0 leaves avg_cost unchanged when
\* q - fill_qty > 0 and sets it to 0 when q - fill_qty <= 0.
C3_SellKeepsOrResetsAvgCost ==
    (IsFill /\ Side = "SELL" /\ Before.quantity > 0) =>
        IF Before.quantity - last.qty > 0
        THEN After.avg_cost = Before.avg_cost
        ELSE After.avg_cost = Zero

\* a partial close of a position built from two BUYs
C3_Witness ==
    /\ IsFill /\ Side = "SELL"
    /\ Before.quantity > last.qty
    /\ hist[last.symbol].minBuy < hist[last.symbol].maxBuy
    /\ After.avg_cost = Before.avg_cost /\ After.avg_cost # Zero

\* C4: under fills with positive price and quantity, every record with
\* quantity = 0 has avg_cost = 0.
C4_FlatHasZeroAvgCost ==
    \A s \in DOMAIN positions :
        positions[s].quantity = 0 => positions[s].avg_cost = Zero

\* a position that was bought and then sold down to exactly zero
C4_Witness ==
    /\ IsFill /\ Side = "SELL"
    /\ Before.quantity > 0 /\ Before.avg_cost # Zero
    /\ After.quantity = 0

\* C5: realized_pnl of a symbol differs from its value before the call only
\* after an on_fill for that symbol that is a SELL on a quantity > 0; a BUY
\* (also one covering a short), a SELL on quantity <= 0, an unknown side and
\* every other operation leave it as it was.
C5_RealizedChangesOnlyOnClosingSell ==
    \A s \in Symbols :
        Get(positions, s).realized_pnl # Get(last.before, s).realized_pnl =>
            /\ IsFill /\ last.symbol = s
            /\ Side = "SELL"
            /\ Get(last.before, s).quantity > 0

\* a BUY covering a short that has a realized PnL booked
C5_Witness ==
    /\ IsFill /\ Side = "BUY"
    /\ Before.quantity < 0 /\ Before.realized_pnl # Zero
    /\ After.realized_pnl = Before.realized_pnl

\* C6: a SELL on a position with quantity q <= 0 sets quantity to q - fill_qty
\* and leaves avg_cost and realized_pnl unchanged.
C6_SellOnFlatOrShort ==
    (IsFill /\ Side = "SELL" /\ Before.quantity <= 0) =>
        /\ After.quantity = Before.quantity - last.qty
        /\ After.avg_cost = Before.avg_cost
        /\ After.realized_pnl = Before.realized_pnl

\* a SELL on a short whose avg_cost is not 0 (it was partly covered)
C6_Witness ==
    /\ IsFill /\ Side = "SELL"
    /\ Before.quantity < 0 /\ Before.avg_cost # Zero
    /\ After.quantity < Before.quantity

\* C7: an on_fill whose side is neither BUY nor SELL leaves the positions dict
\* as it was, for a symbol with a record and for one never seen (no record is
\* created).
C7_UnknownSideNoStateChange ==
    (IsFill /\ Side \notin {"BUY", "SELL"}) => positions = last.before

\* C8: an on_fill with a non-positive price or quantity fails with
\* InvalidInput and leaves the position's quantity, avg_cost and realized_pnl
\* unchanged.
C8_InvalidFillRejected ==
    (IsFill /\ (last.price <= 0 \/ last.qty <= 0)) =>
        /\ last.raised = "InvalidInput"
        /\ Get(positions, last.symbol) = Before

\* C9: whenever a position has quantity > 0, also after a BUY that covered a
\* short, its avg_cost lies between the lowest and the highest BUY price
\* applied to the symbol.
C9_AvgCostWithinBuyPrices ==
    \A s \in DOMAIN positions :
        positions[s].quantity > 0 =>
            /\ RatLeq(Rat(hist[s].minBuy), positions[s].avg_cost)
            /\ RatLeq(positions[s].avg_cost, Rat(hist[s].maxBuy))

\* C10: get_unrealized_pnl returns 0 when the symbol has no record or its
\* quantity is 0, and (last_price - avg_cost) * quantity otherwise.
C10_UnrealizedPnl ==
    last.op = "get_unrealized_pnl" =>
        IF last.symbol \notin DOMAIN positions
        THEN last.result = Zero
        ELSE IF After.quantity = 0
        THEN last.result = Zero
        ELSE last.result[1] * After.avg_cost[2]
                 = (last.price * After.avg_cost[2] - After.avg_cost[1])
                       * After.quantity * last.result[2]

\* a loss on a long position whose average cost is not a whole number
C10_Witness ==
    /\ last.op = "get_unrealized_pnl"
    /\ last.symbol \in DOMAIN positions
    /\ After.quantity > 0 /\ After.avg_cost[2] # 1
    /\ last.result[1] < 0

\* C11: on_fill for a symbol leaves the record of every other symbol as it was
\* (present or absent), and applying it and a fill for another symbol in
\* either order gives the same positions dict.
C11_SymbolsIndependent ==
    IsFill =>
        \A s \in Symbols \ {last.symbol} :
            /\ (s \in DOMAIN positions) = (s \in DOMAIN last.before)
            /\ s \in DOMAIN positions => positions[s] = last.before[s]
            /\ \A action \in Actions, p \in Prices, q \in Qtys :
                   on_fill(on_fill(last.before, s, action, p, q),
                           last.symbol, last.action, last.price, last.qty)
                       = on_fill(positions, s, action, p, q)

\* a fill for one symbol while the other holds an open position
C11_Witness ==
    /\ IsFill /\ Side \in {"BUY", "SELL"}
    /\ \E s \in Symbols \ {last.symbol} :
           s \in DOMAIN positions /\ positions[s].quantity # 0

\* the positions dict after applying the fills of a sequence one after the other
RECURSIVE ApplyInOrder(_, _)
ApplyInOrder(p, fills) ==
    IF fills = <<>> THEN p
    ELSE ApplyInOrder(on_fill(p, fills[1].symbol, fills[1].action, fills[1].price,
                              fills[1].qty), Tail(fills))

Holds(k, price_dict) ==
    /\ alerts[k].sym \in DOMAIN price_dict
    /\ \/ alerts[k].cond.kind = "ge" /\ price_dict[alerts[k].sym] >= alerts[k].cond.thresh
       \/ alerts[k].cond.kind = "le" /\ price_dict[alerts[k].sym] <= alerts[k].cond.thresh

\* C13: check_alerts calls the callback of exactly the registered alerts whose
\* symbol is in the snapshot and whose condition is true of its price, each
\* once, in registration order, with the alert's symbol.
C13_FiresMatchingAlertsInOrder ==
    alast.op = "check_alerts" =>
        LET hit == {k \in 1..Len(alerts) : Holds(k, alast.price_dict)}
            n == Len(alast.fired)
        IN  /\ n = Cardinality(hit)
            /\ \A j \in 1..n : alast.fired[j] \in hit
            /\ \A i, j \in 1..n : i < j => alast.fired[i] < alast.fired[j]
            /\ Len(alast.invoked) = n
            /\ \A j \in 1..n :
                   alast.invoked[j] = <<alerts[alast.fired[j]].cb, alerts[alast.fired[j]].sym>>

\* a call that fires two alerts with different callbacks and skips none wrongly
C13_Witness ==
    /\ alast.op = "check_alerts"
    /\ Len(alast.invoked) = 2
    /\ alast.invoked[1][1] # alast.invoked[2][1]

\* C14: alerts are level-triggered: every alert's callback was called once for
\* each check_alerts call in which its condition held, however often it had
\* fired before.
C14_LevelTriggered ==
    \A k \in 1..Len(alerts) : fireCount[k] = holdCount[k]

\* an alert that fired in two calls
C14_Witness ==
    \E k \in 1..Len(alerts) : fireCount[k] >= 2

\* C15: an alert with a null symbol or a null condition is refused at
\* registration (nothing is added to the registry), and so is never first
\* detected by an error in check_alerts.
C15_NullAlertRejected ==
    /\ \A k \in 1..Len(alerts) :
           alerts[k].sym # NoneSym /\ alerts[k].cond.kind # "None"
    /\ alast.op = "check_alerts" => alast.raised = "none"

(***************************************************************************)
(* Backtester                                                              *)
(***************************************************************************)
BtDone == btRun.pc = "done"

\* C16: sma_strategy on an empty bar series returns the initial capital as the
\* final value and a return of 0, whatever the windows and the capital.
C16_EmptySeriesReturnsCapital ==
    (BtDone /\ btIn.df = <<>>) =>
        /\ btOut.final_val = btIn.initial_capital
        /\ btOut.ret_pct = Zero

C16_Witness ==
    /\ BtDone /\ btIn.df = <<>>
    /\ btIn.short_win = 0 /\ btIn.long_win = 0
    /\ btOut.final_val = 10

BtStarted == btRun.pc \in {"loop", "done"} /\ btIn.df # <<>>

\* C17: no trade happens at a bar of index below long_win (the bars 1..long_win
\* here): the row is not a buy or sell row, no share is held after it and its
\* portfolio value is the initial capital; so a series of at most long_win bars
\* ends with final_val = initial_capital and ret_pct = 0.
C17_NoTradeBeforeLongWindow ==
    BtStarted =>
        /\ \A k \in 1..Len(btRun.portfolio_vals) :
              k <= btIn.long_win => btRun.portfolio_vals[k] = btIn.initial_capital
        /\ (btRun.i >= 1 /\ btRun.i <= btIn.long_win) =>
              /\ btRun.change = 0
              /\ btRun.shares = 0
              /\ btRun.capital = btIn.initial_capital
        /\ (BtDone /\ Len(btIn.df) <= btIn.long_win) =>
              /\ btOut.final_val = btIn.initial_capital
              /\ btOut.ret_pct = Zero

C17_Witness ==
    /\ BtDone
    /\ btIn.df = <<1, 1, 5>> /\ btIn.short_win = 1 /\ btIn.long_win = 3
    /\ btRun.portfolio_vals = <<10, 10, 10>>
    /\ btOut.final_val = 10

BtTraded == btRun.pc \in {"loop", "done"} /\ btRun.i >= 1 /\ btRun.change \in {1, -1}

\* C18: the cash is never negative after a simulated entry or exit, whatever
\* the close values.
C18_CashNeverNegative ==
    BtTraded => btRun.capital >= 0

BtEntered == btRun.pc \in {"loop", "done"} /\ btRun.i >= 1 /\ btRun.change = 1
BtBought == btRun.shares - btRun.prev_shares

\* C19: on an entry row with Close > 0 the number of shares bought is
\* floor(cash / Close) and the cash is debited by shares bought * Close, so the
\* cash left is at least 0 and less than Close; on an entry row with
\* Close <= 0 the cash and the shares are unchanged.
C19_EntryBuysFloorQuantity ==
    BtEntered =>
        LET close == btIn.df[btRun.i]
        IN  IF close > 0
            THEN /\ BtBought * close <= btRun.prev_capital
                 /\ btRun.prev_capital < (BtBought + 1) * close
                 /\ btRun.capital = btRun.prev_capital - BtBought * close
                 /\ 0 <= btRun.capital /\ btRun.capital < close
            ELSE /\ btRun.capital = btRun.prev_capital
                 /\ btRun.shares = btRun.prev_shares

C19_Witness ==
    /\ BtEntered
    /\ btIn.df[btRun.i] = 5 /\ btRun.prev_capital = 7
    /\ BtBought = 1 /\ btRun.capital = 2

BtProcessed == btRun.pc \in {"loop", "done"} /\ btRun.i >= 1

\* the parts of C20 about the exit row and the rows with signal 0
BtExitLiquidates ==
    (BtProcessed /\ btRun.change = -1) =>
        /\ btRun.shares = 0
        /\ btRun.capital = btRun.prev_capital + btRun.prev_shares * btIn.df[btRun.i]
BtFlatWhenSignalZero ==
    (BtProcessed /\ signal(btIn.df, btIn.short_win, btIn.long_win, btRun.i) = 0) =>
        /\ btRun.shares = 0
        /\ btRun.portfolio_vals[btRun.i] = btRun.capital

\* C20: the backtest is long-only and liquidates on exit: the shares held are
\* never negative, an exit row sets the shares to 0 and credits
\* shares * Close to the cash, and after a row whose signal is 0 no share is
\* held, so that row's portfolio value is the cash.
C20_LongOnlyFullLiquidation ==
    /\ BtProcessed => btRun.shares >= 0
    /\ BtExitLiquidates
    /\ BtFlatWhenSignalZero

\* C21: trades are value-neutral: the portfolio value appended for a row, after
\* that row's entry or exit, is the cash before the row plus the shares before
\* the row times the row's Close.
C21_TradesValueNeutral ==
    BtProcessed =>
        btRun.portfolio_vals[btRun.i] =
            btRun.prev_capital + btRun.prev_shares * btIn.df[btRun.i]

C21_Witness ==
    /\ BtProcessed /\ btRun.change = -1
    /\ btRun.prev_shares = 2 /\ btIn.df[btRun.i] = 1
    /\ btRun.portfolio_vals[btRun.i] = btRun.prev_capital + 2
    /\ \E k \in 1..(btRun.i - 1) : btRun.portfolio_vals[k] # btRun.portfolio_vals[btRun.i]

\* C22: sma_strategy is a deterministic function of the stored bars, the
\* initial capital and the windows: a second call on the same Backtester with
\* the same windows returns the portfolio values, the final value and the
\* return of the first, and no call changes the stored frame or the initial
\* capital.
C22_DeterministicAndPure ==
    /\ (BtDone /\ btRun.calls >= 2) =>
          /\ btOut.portfolio_value = btOut.first.portfolio_value
          /\ btOut.final_val = btOut.first.final_val
          /\ btOut.ret_pct = btOut.first.ret_pct
    /\ btRun.calls >= 1 =>
          /\ btIn.df = btOut.first.df
          /\ btIn.initial_capital = btOut.first.initial_capital
    /\ btRun.pc # "none" => btIn.columns = {"Close"}

C22_Witness ==
    /\ BtDone /\ btRun.calls = 2
    /\ btIn.df = <<1, 1, 5, 1>> /\ btIn.short_win = 1 /\ btIn.long_win = 2
    /\ btOut.first.portfolio_value = <<10, 10, 10, 2>>
    /\ btOut.portfolio_value = <<10, 10, 10, 2>>
    /\ btOut.final_val = 2

(***************************************************************************)
(* PositionsManager: totals over BUY and SELL fills                        *)
(***************************************************************************)
\* C23: after any sequence of BUY and SELL fills on a symbol, whatever branches
\* they took, the quantity is the sum of the BUY quantities minus the sum of
\* the SELL quantities.
C23_QuantityIsNetOfFills ==
    \A s \in Symbols :
        hist[s].fills > 0 =>
            /\ s \in DOMAIN positions
            /\ positions[s].quantity = hist[s].buyQty - hist[s].sellQty

\* a long built, sold through zero into a short, and the short partly covered
C23_Witness ==
    /\ IsFill /\ Side = "BUY" /\ Before.quantity = -2 /\ After.quantity = -1
    /\ hist[last.symbol].fills = 3
    /\ hist[last.symbol].buyQty = 2 /\ hist[last.symbol].sellQty = 3

\* C24: in every state reached by fills with a positive price and a positive
\* quantity, the avg_cost of every position is at least 0, also while a short
\* position is being covered by BUY fills.
C24_AvgCostNeverNegative ==
    \A s \in DOMAIN positions : RatLeq(Zero, positions[s].avg_cost)

\* C25: on the long side the accounting conserves money: while no SELL was for
\* more than the quantity held when it came, realized_pnl - quantity * avg_cost
\* is the total SELL proceeds minus the total BUY cost after every fill, and so
\* realized_pnl is that difference whenever the position is flat.
C25_LongSideConservesMoney ==
    \A s \in Symbols :
        (hist[s].fills > 0 /\ hist[s].covered) =>
            /\ s \in DOMAIN positions
            /\ RatSub(positions[s].realized_pnl,
                      RatMulInt(positions[s].avg_cost, positions[s].quantity))
                   = Rat(hist[s].sellCash - hist[s].buyCost)
            /\ positions[s].quantity = 0 =>
                   positions[s].realized_pnl = Rat(hist[s].sellCash - hist[s].buyCost)

C25_Witness ==
    /\ IsFill /\ Side = "SELL" /\ hist[last.symbol].covered
    /\ hist[last.symbol].fills = 3
    /\ After.quantity = 2 /\ After.avg_cost = <<320, 3>>
    /\ After.realized_pnl = <<70, 3>>
    /\ hist[last.symbol].sellCash - hist[last.symbol].buyCost = -190

(***************************************************************************)
(* AlertEngine: the two loops of check_alerts                              *)
(***************************************************************************)
\* the alerts of a list whose symbol has a price in the snapshot and whose
\* condition is true of it
HoldIn(as, price_dict) ==
    {k \in 1..Len(as) :
        /\ as[k].sym \in DOMAIN price_dict
        /\ \/ as[k].cond.kind = "ge" /\ price_dict[as[k].sym] >= as[k].cond.thresh
           \/ as[k].cond.kind = "le" /\ price_dict[as[k].sym] <= as[k].cond.thresh}

\* C26: check_alerts is two-phase: which alerts fire in a call is settled from
\* the alerts registered when the call began and the snapshot, before any
\* handler runs, and a handler that registers an alert does not change it: the
\* new alert does not fire in the running call and is evaluated by the next.
C26_TwoPhaseCheck ==
    alast.op \in {"check_alerts_running", "check_alerts"} =>
        LET n == Len(alast.fired)
        IN  /\ {alast.fired[j] : j \in 1..n} = HoldIn(alast.before, alast.price_dict)
            /\ \A i, j \in 1..n : i < j => alast.fired[i] < alast.fired[j]
            /\ Len(alast.invoked) <= n
            /\ \A j \in 1..Len(alast.invoked) :
                   alast.invoked[j] = <<alast.before[alast.fired[j]].cb,
                                        alast.before[alast.fired[j]].sym>>
            /\ alast.op = "check_alerts" => Len(alast.invoked) = n
            /\ SubSeq(alerts, 1, Len(alast.before)) = alast.before

\* a call that returned after a handler registered an alert whose condition is
\* true of the call's snapshot, and that did not fire it
C26_Witness ==
    /\ alast.op = "check_alerts"
    /\ Len(alast.before) = 1 /\ Len(alerts) = 2
    /\ alast.fired = <<1>> /\ Len(alast.invoked) = 1
    /\ 2 \in HoldIn(alerts, alast.price_dict)

(***************************************************************************)
(* Backtester: the order of entries and exits                              *)
(***************************************************************************)
\* df["positions"] of the rows processed so far
BtChanges ==
    [k \in 1..btRun.i |->
        position_change(btIn.df, btIn.short_win, btIn.long_win, k)]

\* C27: in a backtest run entries and exits alternate and the first is an
\* entry: between two entry rows there is an exit row, and every exit row has
\* an entry row before it and after the exit before.
C27_EntriesAndExitsAlternate ==
    (btRun.pc \in {"loop", "done"} /\ btIn.df # <<>>) =>
        /\ \A a, b \in 1..btRun.i :
              (a < b /\ BtChanges[a] = 1 /\ BtChanges[b] = 1) =>
                  \E c \in (a + 1)..(b - 1) : BtChanges[c] = -1
        /\ \A b \in 1..btRun.i :
              BtChanges[b] = -1 =>
                  \E a \in 1..(b - 1) :
                      /\ BtChanges[a] = 1
                      /\ \A c \in (a + 1)..(b - 1) : BtChanges[c] # -1
        /\ btRun.i >= 1 => btRun.change = BtChanges[btRun.i]

\* a run with an entry, an exit and a second entry
C27_Witness ==
    /\ BtDone /\ btRun.i = 5
    /\ BtChanges[3] = 1 /\ BtChanges[4] = -1 /\ BtChanges[5] = 1

\* the Close values never rise from one bar to the next
NonIncreasing(df) == \A k \in 1..(Len(df) - 1) : df[k] >= df[k + 1]

\* C28: for a series whose Close never rises (a constant series included) and
\* any 0 < short_win < long_win, the short average is never above the long
\* one, so there is no entry: every portfolio value is the initial capital
\* and ret_pct is 0.
C28_NoEntryOnFallingSeries ==
    (btRun.pc \in {"loop", "done"} /\ btIn.df # <<>> /\ NonIncreasing(btIn.df)) =>
        /\ \A k \in 1..Len(btIn.df) :
              sma_defined(btIn.long_win, k) =>
                  RatLeq(sma(btIn.df, btIn.short_win, k), sma(btIn.df, btIn.long_win, k))
        /\ \A k \in 1..btRun.i : BtChanges[k] = 0
        /\ btRun.shares = 0
        /\ \A k \in 1..Len(btRun.portfolio_vals) :
              btRun.portfolio_vals[k] = btIn.initial_capital
        /\ BtDone => /\ btOut.final_val = btIn.initial_capital
                     /\ btOut.ret_pct = Zero

\* a falling series longer than the long window, run to the end
C28_Witness ==
    /\ BtDone
    /\ btIn.df = <<5, 5, 1, 0, -10>> /\ btIn.short_win = 1 /\ btIn.long_win = 2
    /\ btOut.portfolio_value = <<10, 10, 10, 10, 10>>

(***************************************************************************)
(* ChartDataManager                                                        *)
(***************************************************************************)
CandleOk(c) == c.low <= c.open /\ c.open <= c.high /\ c.low <= c.close /\ c.close <= c.high

\* C29: one candle per symbol per minute, whatever the host's timezone: an
\* update_price in the UTC minute of the symbol's last candle changes that
\* candle in place (open kept, close the new price, low and high widened) and
\* appends nothing, one in a later minute appends exactly one candle, and every
\* stored candle has low <= open, close <= high.
C29_OneCandlePerMinute ==
    /\ \A s \in DOMAIN symbol_candles :
          /\ \A k \in 1..Len(symbol_candles[s]) : CandleOk(symbol_candles[s][k])
          /\ \A j, k \in 1..Len(symbol_candles[s]) :
                 j < k => symbol_candles[s][j].minute < symbol_candles[s][k].minute
    /\ (ulast.op = "update_price" /\ ulast.before # <<>>) =>
          LET before == ulast.before
              after == symbol_candles[ulast.symbol]
              n == Len(before)
          IN  IF ulast.minute = before[n].minute
              THEN /\ Len(after) = n
                   /\ after[n].open = before[n].open
                   /\ after[n].close = ulast.price
                   /\ after[n].low = Min(before[n].low, ulast.price)
                   /\ after[n].high = -Min(-before[n].high, -ulast.price)
                   /\ SubSeq(after, 1, n - 1) = SubSeq(before, 1, n - 1)
              ELSE /\ Len(after) = n + 1
                   /\ SubSeq(after, 1, n) = before
                   /\ after[n + 1].minute = ulast.minute
                   /\ after[n + 1].open = ulast.price /\ after[n + 1].close = ulast.price
                   /\ after[n + 1].low = ulast.price /\ after[n + 1].high = ulast.price

\* the claim on a host whose local time is UTC
OneCandlePerMinuteOnUtcHost == clock.tz = 0 => C29_OneCandlePerMinute

====
